---- MODULE Spec2Model ----
(***************************************************************************)
(* tcga_rppa_sig: load an RPPA table and a mutational-signature table,     *)
(* normalise the sample ids, join the two on the sample id and build the   *)
(* paired series per (cancer type, signature, protein).                    *)
(*                                                                         *)
(* Strings that the program slices or rewrites (sample ids, numeric cells) *)
(* are sequences of one-character strings.  A Python float is the integer  *)
(* number of tenths it denotes; an optional float is a sequence of length  *)
(* at most one (None is the empty sequence).  A Python dict is a record    *)
(* [keys, val]: the keys in insertion order and the key -> value function. *)
(***************************************************************************)
EXTENDS Integers, Sequences, FiniteSets, TLC

VARIABLES
    pc,                 \* position of main()
    exit_status,        \* argument of sys.exit (0 while none was called)
    error,              \* message kind of exit_with_error, "" while none
    exception,          \* uncaught Python exception, "" while none
    rppa_rows,          \* rows of the RPPA file read so far
    rppa,               \* read_rppa: results
    rppa_sample_ids,    \* read_rppa: set of sample ids
    rppa_cancer_types,  \* read_rppa: set of cancer types
    rppa_sample_types,  \* read_rppa: rows per sample type
    num_protein_values, \* read_rppa: [missing, valid] counters
    sigs_rows,          \* rows of the signature file read so far
    sigs,               \* read_sigs: results
    signature_associations,
    sigs_sample_ids,
    num_sig_values,     \* read_sigs: [missing, valid] counters
    join_data,          \* join_on_sample: results
    sig_names,          \* main: sorted(sigs_associations.keys())
    join_file,          \* output_join: lines written
    correlations,       \* get_correlations: results
    scan_pos,           \* get_correlations: joined samples scanned so far
    id_pc,              \* identifier normalisers applied on their own
    raw_rppa_id, raw_sig_id,
    parsed_rppa_id, parsed_sig_id, reparsed_sig_id

load_vars == <<rppa_rows, rppa, rppa_sample_ids, rppa_cancer_types,
               rppa_sample_types, num_protein_values>>
sigs_vars == <<sigs_rows, sigs, signature_associations, sigs_sample_ids,
               num_sig_values>>
join_vars == <<join_data, sig_names, join_file>>
corr_vars == <<correlations, scan_pos>>
exit_vars == <<exit_status, error, exception>>
id_vars   == <<id_pc, raw_rppa_id, raw_sig_id, parsed_rppa_id, parsed_sig_id,
               reparsed_sig_id>>
vars == <<pc, exit_vars, load_vars, sigs_vars, join_vars, corr_vars, id_vars>>

----------------------------------------------------------------------------
(* Bounds of the model *)

MaxRppaRows == 3
MaxSigRows == 3

(* Program constants *)

EXIT_BAD_INPUT == 3
SAMPLE_ID_LEN == 12
TCGA == <<"T", "C", "G", "A">>
NON_PROTEIN_FIELDS == <<"Sample_ID", "Cancer_Type", "Sample_Type">>

----------------------------------------------------------------------------
(* Python values *)

None == <<>>
Some(x) == <<x>>

EmptyDict == [keys |-> <<>>, val |-> <<>>]
Has(d, k) == k \in DOMAIN d.val
Get(d, k) == d.val[k]
DictPut(d, k, v) ==
    [keys |-> IF Has(d, k) THEN d.keys ELSE Append(d.keys, k),
     val  |-> [x \in (DOMAIN d.val) \cup {k} |-> IF x = k THEN v ELSE d.val[x]]]
KeySet(d) == DOMAIN d.val

Range(s) == {s[i] : i \in 1..Len(s)}

DigitVal == ("0" :> 0) @@ ("1" :> 1) @@ ("2" :> 2) @@ ("3" :> 3) @@ ("4" :> 4)
            @@ ("5" :> 5) @@ ("6" :> 6) @@ ("7" :> 7) @@ ("8" :> 8) @@ ("9" :> 9)
Digits == DOMAIN DigitVal

RECURSIVE DigitsToNat(_)
DigitsToNat(ds) ==
    IF ds = <<>> THEN 0
    ELSE DigitsToNat(SubSeq(ds, 1, Len(ds) - 1)) * 10 + DigitVal[ds[Len(ds)]]

(* float(text), for texts over digits, "." and letters, with at most one   *)
(* digit after the point: the number of tenths, or None where float raises *)
ParseFloat(text) ==
    LET dots == {i \in 1..Len(text) : text[i] = "."}
    IN  IF \/ \E i \in 1..Len(text) : text[i] \notin Digits \cup {"."}
           \/ Cardinality(dots) > 1
           \/ Len(text) = Cardinality(dots)
        THEN None
        ELSE LET d == IF dots = {} THEN Len(text) + 1 ELSE CHOOSE i \in dots : TRUE
                 whole == SubSeq(text, 1, d - 1)
                 frac == SubSeq(text, d + 1, Len(text))
             IN  Some(DigitsToNat(whole) * 10
                      + (IF frac = <<>> THEN 0 ELSE DigitVal[frac[1]]))

DigitChar(n) == CHOOSE c \in Digits : DigitVal[c] = n

RECURSIVE NatToDigits(_)
NatToDigits(n) ==
    IF n < 10 THEN <<DigitChar(n)>>
    ELSE Append(NatToDigits(n \div 10), DigitChar(n % 10))

(* str(value) of an optional float *)
Str(v) ==
    IF v = None THEN <<"N", "o", "n", "e">>
    ELSE NatToDigits(v[1] \div 10) \o <<".", DigitChar(v[1] % 10)>>

----------------------------------------------------------------------------
(* Identifier normalisers *)

(* a barcode of exactly 12 characters is refused *)
parse_rppa_sample_id_Strict(sample_id) ==
    IF Len(sample_id) > 12
    THEN [ok |-> TRUE, id |-> SubSeq(sample_id, 1, 12)]
    ELSE [ok |-> FALSE, id |-> <<>>]

(* parse_rppa_sample_id: the first 12 characters, or exit_with_error *)
parse_rppa_sample_id(sample_id) ==
    IF Len(sample_id) >= SAMPLE_ID_LEN
    THEN [ok |-> TRUE, id |-> SubSeq(sample_id, 1, SAMPLE_ID_LEN)]
    ELSE [ok |-> FALSE, id |-> <<>>]

StartsWith(s, prefix) ==
    /\ Len(s) >= Len(prefix)
    /\ SubSeq(s, 1, Len(prefix)) = prefix

(* str.replace(old, new) for one-character old and new *)
RECURSIVE Replace(_, _, _)
Replace(s, old, new) ==
    IF s = <<>> THEN <<>>
    ELSE <<IF Head(s) = old THEN new ELSE Head(s)>> \o Replace(Tail(s), old, new)

(* longer identifiers are rewritten too *)
parse_sig_sample_id_AtLeast(sample_id) ==
    IF StartsWith(sample_id, TCGA) /\ Len(sample_id) >= 12
    THEN Replace(sample_id, ".", "-")
    ELSE sample_id

parse_sig_sample_id(sample_id) ==
    IF StartsWith(sample_id, TCGA) /\ Len(sample_id) = SAMPLE_ID_LEN
    THEN Replace(sample_id, ".", "-")
    ELSE sample_id

----------------------------------------------------------------------------
(* Input files *)

fieldnames == NON_PROTEIN_FIELDS \o <<"P1", "P2">>
protein_names == SubSeq(fieldnames, Len(NON_PROTEIN_FIELDS) + 1, Len(fieldnames))

PatientA == TCGA \o <<"-", "O", "R", "-", "A", "5", "J", "1">>
PatientB == TCGA \o <<"-", "A", "O", "-", "A", "1", "K", "P">>
BarcodeA1 == PatientA \o <<"-", "0", "1", "A">>
BarcodeA2 == PatientA \o <<"-", "0", "2", "B">>
BarcodeB == PatientB \o <<"-", "0", "1", "A", "-", "2", "1">>
BarcodeShort == TCGA \o <<"-", "O", "R">>
SigIdA == TCGA \o <<".", "O", "R", ".", "A", "5", "J", "1">>
SigIdB == TCGA \o <<".", "A", "O", ".", "A", "1", "K", "P">>
SigIdOther == <<"P", "D", ".", "7">>

(* Raw identifiers for the normalisers on their own: lengths 10 to 16,     *)
(* periods and hyphens in every position of the middle field              *)
IdChars == {".", "-", "J"}
IdBodies == {<<a, b, c>> : a \in IdChars, b \in IdChars, c \in IdChars}
RawSigIds ==
    {head \o body \o tail :
        head \in {TCGA, <<"T", "C", "G", ".">>}, body \in IdBodies,
        tail \in {<<"A", "5", "J", "1">>, <<".", "A", "5", "J", "1">>,
                  <<".", "A", "5", "J", "1", "X">>}}
RawRppaIds ==
    {TCGA \o body \o tail :
        body \in IdBodies,
        tail \in {<<"-", "A", "5">>, <<"-", "A", "5", "J", "1">>,
                  <<"-", "A", "5", "J", "1", "-", "0", "1", "A">>,
                  <<".", "A", "5", "J", "1", "-", "0", "1">>}}

CancerTypes == {"ACC", "BRCA"}
SampleTypes == {"Primary", "Metastatic"}
Cells(c1, c2) == ("P1" :> c1) @@ ("P2" :> c2)
CellsFull == Cells(<<"1", ".", "5">>, <<"2">>)
CellsSparse == Cells(<<>>, <<"0", ".", "5">>)
CellsText == Cells(<<"N", "A">>, <<"2", ".", "0">>)

RppaRow(id, cancer, type, cells) ==
    [Sample_ID |-> id, Cancer_Type |-> cancer, Sample_Type |-> type, cells |-> cells]

(* Every row shape, for the loader on its own *)
RppaRows ==
    {RppaRow(id, c, t, cells) :
        id \in {BarcodeA1, BarcodeA2},
        c \in CancerTypes, t \in SampleTypes, cells \in {CellsFull, CellsText}}
    \cup {RppaRow(BarcodeB, "ACC", t, cells) :
             t \in SampleTypes, cells \in {CellsFull, CellsText}}
    \cup {RppaRow(BarcodeShort, "ACC", "Primary", CellsFull)}

(* The one RPPA row read before the signature loader runs on its own *)
OneRppaRow == {RppaRow(BarcodeA1, "ACC", "Primary", CellsFull)}

(* The rows of the whole-run model *)
RunRppaRows ==
    { RppaRow(BarcodeA1, "ACC", "Primary", CellsFull),
      RppaRow(BarcodeA1, "BRCA", "Primary", CellsFull),
      RppaRow(BarcodeB, "ACC", "Primary", CellsSparse),
      RppaRow(BarcodeA1, "BRCA", "Metastatic", CellsSparse),
      RppaRow(BarcodeShort, "ACC", "Primary", CellsFull) }

SigRow(id, sig, assoc, contribution) ==
    [Tumor_Sample_Barcode |-> id, Signature |-> sig, Association |-> assoc,
     Contribution |-> contribution]

Association(id, sig) ==
    IF id = SigIdOther THEN "Unknown" ELSE IF sig = "SBS1" THEN "Aging" ELSE "APOBEC"

(* Every row shape, for the loader on its own *)
SigRows ==
    {SigRow(id, s, Association(id, s), v) :
        id \in {SigIdA, PatientA, SigIdOther}, s \in {"SBS1", "SBS2"},
        v \in {<<"0", ".", "3">>, <<>>}}

(* The rows of the whole-run model *)
RunSigRows ==
    { SigRow(SigIdA, "SBS1", "Aging", <<"0", ".", "3">>),
      SigRow(SigIdA, "SBS2", "APOBEC", <<>>),
      SigRow(SigIdB, "SBS1", "Aging", <<"1">>),
      SigRow(SigIdB, "SBS2", "APOBEC", <<"0", ".", "3">>) }

----------------------------------------------------------------------------
(* exit_with_error *)

ExitWithError(message, status) ==
    /\ pc' = "exit"
    /\ error' = message
    /\ exit_status' = status
    /\ UNCHANGED exception

Raise(exc) ==
    /\ pc' = "crash"
    /\ exception' = exc
    /\ UNCHANGED <<error, exit_status>>

----------------------------------------------------------------------------
(* read_rppa *)

(* a stored value is kept when the triple is seen again *)
StoreValue_KeepFirst(proteins, protein, this_protein_value) ==
    IF Has(proteins, protein) THEN proteins
    ELSE DictPut(proteins, protein, this_protein_value)

(* results[this_sample][this_cancer][this_sample_type][protein] = value *)
StoreValue(proteins, protein, this_protein_value) ==
    DictPut(proteins, protein, this_protein_value)

RECURSIVE StoreProteins(_, _, _)
(* the loop over protein_names: every cell parsed and stored *)
StoreProteins(proteins, row, i) ==
    IF i > Len(protein_names) THEN proteins
    ELSE StoreProteins(StoreValue(proteins, protein_names[i],
                                  ParseFloat(row.cells[protein_names[i]])),
                       row, i + 1)

(* the sample type column is added to the set of cancer types *)
AddCancerType_WrongColumn(cancer_types, row) == cancer_types \cup {row.Sample_Type}

(* rppa_cancer_types.add(this_cancer) *)
AddCancerType(cancer_types, row) == cancer_types \cup {row.Cancer_Type}

RppaInsert(results, this_sample, row) ==
    LET this_cancer == row.Cancer_Type
        this_sample_type == row.Sample_Type
        r1 == IF Has(results, this_sample) THEN results
              ELSE DictPut(results, this_sample, EmptyDict)
        c1 == IF Has(Get(r1, this_sample), this_cancer) THEN Get(r1, this_sample)
              ELSE DictPut(Get(r1, this_sample), this_cancer, EmptyDict)
        t1 == IF Has(Get(c1, this_cancer), this_sample_type) THEN Get(c1, this_cancer)
              ELSE DictPut(Get(c1, this_cancer), this_sample_type, EmptyDict)
        p1 == StoreProteins(Get(t1, this_sample_type), row, 1)
    IN  DictPut(r1, this_sample,
                DictPut(c1, this_cancer, DictPut(t1, this_sample_type, p1)))

CountCells(row, missing) ==
    Cardinality({i \in 1..Len(protein_names) :
                    (ParseFloat(row.cells[protein_names[i]]) = None) = missing})

ReadRppaRow(row) ==
    /\ pc = "read_rppa"
    /\ Len(rppa_rows) < MaxRppaRows
    /\ rppa_rows' = Append(rppa_rows, row)
    /\ LET parsed == parse_rppa_sample_id(row.Sample_ID)
       IN  IF ~parsed.ok
           THEN /\ ExitWithError("Cannot parse RPPA sample id", EXIT_BAD_INPUT)
                /\ UNCHANGED <<rppa, rppa_sample_ids, rppa_cancer_types,
                               rppa_sample_types, num_protein_values>>
           ELSE /\ rppa_sample_ids' = rppa_sample_ids \cup {parsed.id}
                /\ rppa_cancer_types' = AddCancerType(rppa_cancer_types, row)
                /\ rppa_sample_types' =
                      [t \in (DOMAIN rppa_sample_types) \cup {row.Sample_Type} |->
                          (IF t \in DOMAIN rppa_sample_types
                           THEN rppa_sample_types[t] ELSE 0)
                          + (IF t = row.Sample_Type THEN 1 ELSE 0)]
                /\ rppa' = RppaInsert(rppa, parsed.id, row)
                /\ num_protein_values' =
                      [missing |-> num_protein_values.missing + CountCells(row, TRUE),
                       valid |-> num_protein_values.valid + CountCells(row, FALSE)]
                /\ UNCHANGED <<pc, exit_vars>>
    /\ UNCHANGED <<sigs_vars, join_vars, corr_vars, id_vars>>

(* cancer_types_per_sample: min() and max() of an empty list raise *)
cancer_types_per_sample(sample_rppa) ==
    LET counts == [i \in 1..Len(sample_rppa.keys) |->
                      Len(Get(sample_rppa, sample_rppa.keys[i]).keys)]
    IN  IF counts = <<>> THEN [ok |-> FALSE, min |-> 0, max |-> 0]
        ELSE [ok |-> TRUE,
              min |-> CHOOSE m \in Range(counts) : \A n \in Range(counts) : m <= n,
              max |-> CHOOSE m \in Range(counts) : \A n \in Range(counts) : m >= n]

(* end of the RPPA file: read_rppa returns, main logs the statistics *)
ReadRppaReturn ==
    /\ pc = "read_rppa"
    /\ IF cancer_types_per_sample(rppa).ok
       THEN pc' = "read_sigs" /\ UNCHANGED exit_vars
       ELSE Raise("ValueError")
    /\ UNCHANGED <<load_vars, sigs_vars, join_vars, corr_vars, id_vars>>

----------------------------------------------------------------------------
(* read_sigs *)

(* the duplicate test is dropped: a later row overwrites *)
IsDuplicateSignature_Never(results, this_sample, this_signature) == FALSE

(* the test "this_signature not in results[this_sample]", negated *)
IsDuplicateSignature(results, this_sample, this_signature) ==
    Has(Get(results, this_sample), this_signature)

ReadSigsRow(row) ==
    /\ pc = "read_sigs"
    /\ Len(sigs_rows) < MaxSigRows
    /\ sigs_rows' = Append(sigs_rows, row)
    /\ LET this_sample == parse_sig_sample_id(row.Tumor_Sample_Barcode)
           r1 == IF Has(sigs, this_sample) THEN sigs
                 ELSE DictPut(sigs, this_sample, EmptyDict)
           this_signature == row.Signature
           this_signature_value == ParseFloat(row.Contribution)
       IN  /\ sigs_sample_ids' = sigs_sample_ids \cup {this_sample}
           /\ signature_associations' =
                 IF Has(signature_associations, this_signature)
                 THEN signature_associations
                 ELSE DictPut(signature_associations, this_signature, row.Association)
           /\ num_sig_values' =
                 IF this_signature_value = None
                 THEN [num_sig_values EXCEPT !.missing = @ + 1]
                 ELSE [num_sig_values EXCEPT !.valid = @ + 1]
           /\ IF ~IsDuplicateSignature(r1, this_sample, this_signature)
              THEN /\ sigs' = DictPut(r1, this_sample,
                                      DictPut(Get(r1, this_sample), this_signature,
                                              this_signature_value))
                   /\ UNCHANGED <<pc, exit_vars>>
              ELSE /\ sigs' = r1
                   /\ ExitWithError("Duplicate signature for sample", EXIT_BAD_INPUT)
    /\ UNCHANGED <<load_vars, join_vars, corr_vars, id_vars>>

(* end of the signature file: read_sigs returns, main logs the statistics *)
ReadSigsReturn ==
    /\ pc = "read_sigs"
    /\ pc' = "join"
    /\ UNCHANGED <<exit_vars, load_vars, sigs_vars, join_vars, corr_vars, id_vars>>

----------------------------------------------------------------------------
(* join_on_sample *)

ALLOWED_SAMPLE_TYPE == "Primary"

(* the sample type filter is missing *)
IsAllowedSampleType_Any(sample_type) == TRUE

IsAllowedSampleType(sample_type) == sample_type = ALLOWED_SAMPLE_TYPE

(* a second entry of a sample is added to the first *)
JoinEntry_Merge(acc, sample, cancer_type, proteins, sigs_in) ==
    LET entry == [sigs |-> Get(sigs_in, sample), proteins |-> proteins]
        had == IF Has(acc.results, sample) THEN Get(acc.results, sample) ELSE EmptyDict
    IN  [acc EXCEPT !.results = DictPut(@, sample, DictPut(had, cancer_type, entry))]

(* the body of the innermost loop, for an allowed sample type *)
JoinEntry(acc, sample, cancer_type, proteins, sigs_in) ==
    IF Has(acc.results, sample)
    THEN [acc EXCEPT !.failed = TRUE]
    ELSE [acc EXCEPT !.results =
             DictPut(@, sample,
                     DictPut(EmptyDict, cancer_type,
                             [sigs |-> Get(sigs_in, sample), proteins |-> proteins]))]

RECURSIVE JoinSampleTypes(_, _, _, _, _, _)
JoinSampleTypes(acc, sample, cancer_type, sample_types, sigs_in, k) ==
    IF acc.failed \/ k > Len(sample_types.keys) THEN acc
    ELSE LET sample_type == sample_types.keys[k]
             next == IF IsAllowedSampleType(sample_type)
                     THEN JoinEntry(acc, sample, cancer_type,
                                    Get(sample_types, sample_type), sigs_in)
                     ELSE acc
         IN  JoinSampleTypes(next, sample, cancer_type, sample_types, sigs_in, k + 1)

RECURSIVE JoinCancerTypes(_, _, _, _, _)
JoinCancerTypes(acc, sample, cancer_types, sigs_in, j) ==
    IF acc.failed \/ j > Len(cancer_types.keys) THEN acc
    ELSE LET cancer_type == cancer_types.keys[j]
         IN  JoinCancerTypes(
                 JoinSampleTypes(acc, sample, cancer_type,
                                 Get(cancer_types, cancer_type), sigs_in, 1),
                 sample, cancer_types, sigs_in, j + 1)

RECURSIVE JoinSamples(_, _, _, _)
JoinSamples(acc, rppa_in, sigs_in, i) ==
    IF acc.failed \/ i > Len(rppa_in.keys) THEN acc
    ELSE LET sample == rppa_in.keys[i]
             next == IF Has(sigs_in, sample)
                     THEN JoinCancerTypes(acc, sample, Get(rppa_in, sample), sigs_in, 1)
                     ELSE acc
         IN  JoinSamples(next, rppa_in, sigs_in, i + 1)

join_on_sample(rppa_in, sigs_in) ==
    JoinSamples([failed |-> FALSE, results |-> EmptyDict], rppa_in, sigs_in, 1)

(* sorted() of the signature names of the model *)
SortedNames == <<"SBS1", "SBS2">>
Sorted(names) == SelectSeq(SortedNames, LAMBDA n : n \in names)

(* main: join_on_sample, then the sorted signature names *)
Join ==
    /\ pc = "join"
    /\ LET joined == join_on_sample(rppa, sigs)
       IN  IF joined.failed
           THEN /\ ExitWithError("Duplicate sample in joined RPPA SIGs data",
                                 EXIT_BAD_INPUT)
                /\ UNCHANGED <<join_data, sig_names>>
           ELSE /\ join_data' = joined.results
                /\ sig_names' = Sorted(KeySet(signature_associations))
                /\ pc' = "output_join"
                /\ UNCHANGED exit_vars
    /\ UNCHANGED <<load_vars, sigs_vars, join_file, corr_vars, id_vars>>

----------------------------------------------------------------------------
(* output_join *)

RECURSIVE OutputValues(_, _, _, _)
(* str() of the values of names[i..] in dict d; stops at a name d lacks *)
OutputValues(acc, d, names, i) ==
    IF acc.failed \/ i > Len(names) THEN acc
    ELSE IF Has(d, names[i])
         THEN OutputValues([acc EXCEPT !.row = Append(@, Str(Get(d, names[i])))],
                           d, names, i + 1)
         ELSE [acc EXCEPT !.failed = TRUE]

RECURSIVE OutputCancerTypes(_, _, _, _)
OutputCancerTypes(acc, sample, cancer_types, j) ==
    IF acc.failed \/ j > Len(cancer_types.keys) THEN acc
    ELSE LET cancer_type == cancer_types.keys[j]
             entry == Get(cancer_types, cancer_type)
             s == OutputValues([failed |-> FALSE, row |-> <<>>], entry.sigs,
                               sig_names, 1)
             p == OutputValues(s, entry.proteins, protein_names, 1)
             line == [sample |-> sample, cancer |-> cancer_type, values |-> p.row]
         IN  IF p.failed THEN [acc EXCEPT !.failed = TRUE]
             ELSE OutputCancerTypes([acc EXCEPT !.lines = Append(@, line)],
                                    sample, cancer_types, j + 1)

RECURSIVE OutputSamples(_, _, _)
OutputSamples(acc, data, i) ==
    IF acc.failed \/ i > Len(data.keys) THEN acc
    ELSE OutputSamples(OutputCancerTypes(acc, data.keys[i], Get(data, data.keys[i]), 1),
                       data, i + 1)

output_join(data) ==
    LET header == [sample |-> "sample", cancer |-> "cancer",
                   values |-> sig_names \o protein_names]
    IN  OutputSamples([failed |-> FALSE, lines |-> <<header>>], data, 1)

(* main: the join dump, when options.join names a file *)
OutputJoin ==
    /\ pc = "output_join"
    /\ LET out == output_join(join_data)
       IN  /\ join_file' = out.lines
           /\ IF out.failed THEN Raise("KeyError")
              ELSE pc' = "get_correlations" /\ UNCHANGED exit_vars
    /\ UNCHANGED <<load_vars, sigs_vars, join_data, sig_names, corr_vars, id_vars>>

(* main: options.join is None *)
SkipOutputJoin ==
    /\ pc = "output_join"
    /\ pc' = "get_correlations"
    /\ UNCHANGED <<exit_vars, load_vars, sigs_vars, join_vars, corr_vars, id_vars>>

----------------------------------------------------------------------------
(* get_correlations *)

(* itertools.product(a, b) *)
Product(a, b) ==
    [n \in 1..(Len(a) * Len(b)) |->
        <<a[((n - 1) \div Len(b)) + 1], b[((n - 1) % Len(b)) + 1]>>]

EmptySeries == [sigs |-> <<>>, proteins |-> <<>>]

(* only the cancer types of the joined samples are initialised *)
InitialCorrelations_Joined(cancer_types, signature_names) ==
    [cancer_type \in {c \in cancer_types :
                         \E sample \in KeySet(join_data) :
                            Has(Get(join_data, sample), c)} |->
        [sp \in Range(Product(signature_names, protein_names)) |-> EmptySeries]]

InitialCorrelations(cancer_types, signature_names) ==
    [cancer_type \in cancer_types |->
        [sp \in Range(Product(signature_names, protein_names)) |-> EmptySeries]]

(* the protein value is not tested *)
BothPresent_SigOnly(this_sig_val, this_protein_val) == this_sig_val # None

(* the test that guards the two appends *)
BothPresent(this_sig_val, this_protein_val) ==
    this_sig_val # None /\ this_protein_val # None

RECURSIVE ScanPairs(_, _, _, _, _)
(* the loop over product(signature_names, protein_names) for one entry *)
ScanPairs(acc, cancer_type, entry, pairs, n) ==
    IF acc.status # "ok" \/ n > Len(pairs) THEN acc
    ELSE LET s == pairs[n][1]
             p == pairs[n][2]
         IN  IF ~Has(entry.sigs, s) \/ ~Has(entry.proteins, p)
             THEN [acc EXCEPT !.status = "KeyError"]
             ELSE LET this_sig_val == Get(entry.sigs, s)
                      this_protein_val == Get(entry.proteins, p)
                      next ==
                         IF BothPresent(this_sig_val, this_protein_val)
                         THEN [acc EXCEPT
                                 !.results[cancer_type][<<s, p>>].sigs =
                                     Append(@, this_sig_val),
                                 !.results[cancer_type][<<s, p>>].proteins =
                                     Append(@, this_protein_val)]
                         ELSE acc
                  IN  ScanPairs(next, cancer_type, entry, pairs, n + 1)

RECURSIVE ScanCancerTypes(_, _, _, _)
(* the loop over the cancer types of one joined sample *)
ScanCancerTypes(acc, cancer_types, pairs, j) ==
    IF acc.status # "ok" \/ j > Len(cancer_types.keys) THEN acc
    ELSE LET cancer_type == cancer_types.keys[j]
         IN  IF cancer_type \in DOMAIN acc.results
             THEN ScanCancerTypes(
                      ScanPairs(acc, cancer_type, Get(cancer_types, cancer_type),
                                pairs, 1),
                      cancer_types, pairs, j + 1)
             ELSE [acc EXCEPT !.status = "exit"]

(* get_correlations is entered: every combination gets two empty lists *)
GetCorrelationsBegin ==
    /\ pc = "get_correlations"
    /\ correlations' = InitialCorrelations(rppa_cancer_types, sig_names)
    /\ scan_pos' = 0
    /\ pc' = "scan"
    /\ UNCHANGED <<exit_vars, load_vars, sigs_vars, join_vars, id_vars>>

(* one iteration of the loop over join_data.items() *)
GetCorrelationsScan ==
    /\ pc = "scan"
    /\ scan_pos < Len(join_data.keys)
    /\ LET sample == join_data.keys[scan_pos + 1]
           out == ScanCancerTypes([status |-> "ok", results |-> correlations],
                                  Get(join_data, sample),
                                  Product(sig_names, protein_names), 1)
       IN  /\ correlations' = out.results
           /\ scan_pos' = scan_pos + 1
           /\ CASE out.status = "ok" -> UNCHANGED <<pc, exit_vars>>
                [] out.status = "exit" ->
                      ExitWithError("Unexpected cancer type in joined data",
                                    EXIT_BAD_INPUT)
                [] out.status = "KeyError" -> Raise("KeyError")
    /\ UNCHANGED <<load_vars, sigs_vars, join_vars, id_vars>>

(* the loop is over: get_correlations returns and main ends *)
GetCorrelationsReturn ==
    /\ pc = "scan"
    /\ scan_pos = Len(join_data.keys)
    /\ pc' = "done"
    /\ UNCHANGED <<exit_vars, load_vars, sigs_vars, join_vars, corr_vars, id_vars>>

----------------------------------------------------------------------------

(* The normalisers applied to one identifier each, outside a run *)

ParseSigSampleId ==
    /\ id_pc = "sig"
    /\ parsed_sig_id' = parse_sig_sample_id(raw_sig_id)
    /\ id_pc' = "resig"
    /\ UNCHANGED <<pc, exit_vars, load_vars, sigs_vars, join_vars, corr_vars,
                   raw_rppa_id, raw_sig_id, parsed_rppa_id, reparsed_sig_id>>

ParseSigSampleIdAgain ==
    /\ id_pc = "resig"
    /\ reparsed_sig_id' = parse_sig_sample_id(parsed_sig_id)
    /\ id_pc' = "rppa"
    /\ UNCHANGED <<pc, exit_vars, load_vars, sigs_vars, join_vars, corr_vars,
                   raw_rppa_id, raw_sig_id, parsed_rppa_id, parsed_sig_id>>

ParseRppaSampleId ==
    /\ id_pc = "rppa"
    /\ parsed_rppa_id' = parse_rppa_sample_id(raw_rppa_id)
    /\ id_pc' = "done"
    /\ IF parsed_rppa_id'.ok THEN UNCHANGED <<pc, exit_vars>>
       ELSE ExitWithError("Cannot parse RPPA sample id", EXIT_BAD_INPUT)
    /\ UNCHANGED <<load_vars, sigs_vars, join_vars, corr_vars,
                   raw_rppa_id, raw_sig_id, parsed_sig_id, reparsed_sig_id>>

----------------------------------------------------------------------------

InitRun ==
    /\ pc = "read_rppa"
    /\ exit_status = 0
    /\ error = ""
    /\ exception = ""
    /\ rppa_rows = <<>>
    /\ rppa = EmptyDict
    /\ rppa_sample_ids = {}
    /\ rppa_cancer_types = {}
    /\ rppa_sample_types = <<>>
    /\ num_protein_values = [missing |-> 0, valid |-> 0]
    /\ sigs_rows = <<>>
    /\ sigs = EmptyDict
    /\ signature_associations = EmptyDict
    /\ sigs_sample_ids = {}
    /\ num_sig_values = [missing |-> 0, valid |-> 0]
    /\ join_data = EmptyDict
    /\ sig_names = <<>>
    /\ join_file = <<>>
    /\ correlations = <<>>
    /\ scan_pos = 0
    /\ parsed_rppa_id = [ok |-> FALSE, id |-> <<>>]
    /\ parsed_sig_id = <<>>
    /\ reparsed_sig_id = <<>>

Init ==
    /\ InitRun
    /\ id_pc = "idle"
    /\ raw_rppa_id = <<>>
    /\ raw_sig_id = <<>>

InitIds ==
    /\ InitRun
    /\ id_pc = "sig"
    /\ raw_rppa_id \in RawRppaIds
    /\ raw_sig_id \in RawSigIds

Next ==
    \/ \E row \in RunRppaRows : ReadRppaRow(row)
    \/ ReadRppaReturn
    \/ \E row \in RunSigRows : ReadSigsRow(row)
    \/ ReadSigsReturn
    \/ Join
    \/ OutputJoin
    \/ SkipOutputJoin
    \/ GetCorrelationsBegin
    \/ GetCorrelationsScan
    \/ GetCorrelationsReturn

Spec == Init /\ [][Next]_vars

NextRppa ==
    \/ \E row \in RppaRows : ReadRppaRow(row)
    \/ ReadRppaReturn

SpecRppa == Init /\ [][NextRppa]_vars

NextSigs ==
    \/ \E row \in OneRppaRow : ReadRppaRow(row)
    \/ ReadRppaReturn
    \/ \E row \in SigRows : ReadSigsRow(row)
    \/ ReadSigsReturn

SpecSigs == Init /\ [][NextSigs]_vars

NextIds ==
    \/ ParseSigSampleId
    \/ ParseSigSampleIdAgain
    \/ ParseRppaSampleId

SpecIds == InitIds /\ [][NextIds]_vars

----------------------------------------------------------------------------
(* Properties *)

DUPLICATE_SAMPLE == "Duplicate sample in joined RPPA SIGs data"
UNEXPECTED_CANCER == "Unexpected cancer type in joined data"
DUPLICATE_SIGNATURE == "Duplicate signature for sample"
BAD_SAMPLE_ID == "Cannot parse RPPA sample id"

(* join_on_sample has returned its record *)
JoinCompleted ==
    \/ pc \in {"output_join", "get_correlations", "scan", "done"}
    \/ pc = "crash" /\ exception = "KeyError"
    \/ pc = "exit" /\ error = UNEXPECTED_CANCER

(* join_on_sample has run, to its end or to its error *)
JoinAttempted == JoinCompleted \/ (pc = "exit" /\ error = DUPLICATE_SAMPLE)

CancersWithAllowedType(sample) ==
    {c \in KeySet(Get(rppa, sample)) :
        ALLOWED_SAMPLE_TYPE \in KeySet(Get(Get(rppa, sample), c))}

JoinedSamplesUnder(cancer_type) ==
    {sample \in KeySet(join_data) : Has(Get(join_data, sample), cancer_type)}

(* C1: when join_on_sample completes, every key of the joined record is a   *)
(* key of the RPPA map and of the signature map and has an RPPA entry of    *)
(* sample type 'Primary'; leaving a sample out raises nothing: the join     *)
(* fails only for a sample of both maps that is 'Primary' under two cancer  *)
(* types.                                                                   *)
C1_JoinedOnlyIfInBothAndPrimary ==
    /\ JoinCompleted =>
          \A sample \in KeySet(join_data) :
             /\ Has(rppa, sample)
             /\ Has(sigs, sample)
             /\ CancersWithAllowedType(sample) # {}
    /\ (pc = "exit" /\ error = DUPLICATE_SAMPLE) =>
          \E sample \in KeySet(rppa) :
             Has(sigs, sample) /\ Cardinality(CancersWithAllowedType(sample)) >= 2

(* a run that ended normally, with a joined sample and with a sample of     *)
(* both maps left out for its sample type                                   *)
C1_Witness ==
    /\ pc = "done"
    /\ KeySet(join_data) # {}
    /\ \E sample \in KeySet(rppa) :
          /\ Has(sigs, sample)
          /\ CancersWithAllowedType(sample) = {}
          /\ ~Has(join_data, sample)

(* C2: a sample of the signature map that the RPPA map holds as 'Primary'   *)
(* under two cancer types makes the join exit with EXIT_BAD_INPUT, and a    *)
(* joined record that is returned holds one cancer type per sample.         *)
C2_DuplicateSampleIsBadInput ==
    /\ JoinAttempted =>
          ((\E sample \in KeySet(rppa) :
               Has(sigs, sample) /\ Cardinality(CancersWithAllowedType(sample)) >= 2)
           => (pc = "exit" /\ error = DUPLICATE_SAMPLE /\ exit_status = EXIT_BAD_INPUT))
    /\ JoinCompleted =>
          \A sample \in KeySet(join_data) : Len(Get(join_data, sample).keys) <= 1

C2_Witness ==
    /\ pc = "exit"
    /\ error = DUPLICATE_SAMPLE
    /\ \E sample \in KeySet(rppa) :
          Has(sigs, sample) /\ Cardinality(CancersWithAllowedType(sample)) >= 2

SigKey(row) == <<parse_sig_sample_id(row.Tumor_Sample_Barcode), row.Signature>>

(* the rows read_sigs inserted: all the rows read, but the one it failed on *)
AcceptedSigRows ==
    IF error = DUPLICATE_SIGNATURE
    THEN SubSeq(sigs_rows, 1, Len(sigs_rows) - 1)
    ELSE sigs_rows

(* C3: the rows accepted by read_sigs carry pairwise different (sample,     *)
(* signature) pairs; the load fails with EXIT_BAD_INPUT exactly on a row    *)
(* whose pair an earlier row carried; and the map holds, for each pair of   *)
(* an accepted row and for no other, the value of the one row carrying it.  *)
C3_DuplicateSignatureIsBadInput ==
    LET rows == AcceptedSigRows
    IN  /\ \A i, j \in 1..Len(rows) : SigKey(rows[i]) = SigKey(rows[j]) => i = j
        /\ error = DUPLICATE_SIGNATURE =>
              /\ pc = "exit"
              /\ exit_status = EXIT_BAD_INPUT
              /\ \E i \in 1..Len(rows) : SigKey(rows[i]) = SigKey(sigs_rows[Len(sigs_rows)])
        /\ \A i \in 1..Len(rows) :
              /\ Has(sigs, SigKey(rows[i])[1])
              /\ Has(Get(sigs, SigKey(rows[i])[1]), rows[i].Signature)
              /\ Get(Get(sigs, SigKey(rows[i])[1]), rows[i].Signature)
                    = ParseFloat(rows[i].Contribution)
        /\ \A sample \in KeySet(sigs) : \A sig \in KeySet(Get(sigs, sample)) :
              \E i \in 1..Len(rows) : SigKey(rows[i]) = <<sample, sig>>

(* the load failed on a row whose raw barcode and whose value differ from   *)
(* those of the earlier row with the same pair, and the earlier value stays *)
C3_Witness ==
    /\ pc = "exit"
    /\ error = DUPLICATE_SIGNATURE
    /\ LET last == sigs_rows[Len(sigs_rows)]
       IN  \E i \in 1..(Len(sigs_rows) - 1) :
              /\ SigKey(sigs_rows[i]) = SigKey(last)
              /\ sigs_rows[i].Tumor_Sample_Barcode # last.Tumor_Sample_Barcode
              /\ ParseFloat(sigs_rows[i].Contribution) # ParseFloat(last.Contribution)
              /\ Get(Get(sigs, SigKey(last)[1]), last.Signature)
                    = ParseFloat(sigs_rows[i].Contribution)

(* the joined samples scanned so far whose two values for (s, p) under the  *)
(* cancer type are both present, in scan order                              *)
Contributing(cancer_type, s, p) ==
    SelectSeq(SubSeq(join_data.keys, 1, scan_pos),
              LAMBDA sample :
                 /\ Has(Get(join_data, sample), cancer_type)
                 /\ LET entry == Get(Get(join_data, sample), cancer_type)
                    IN  /\ Has(entry.sigs, s)
                        /\ Get(entry.sigs, s) # None
                        /\ Has(entry.proteins, p)
                        /\ Get(entry.proteins, p) # None)

(* C4: the two sequences of every combination have the same length at every *)
(* point of the scan, and after each scanned sample they are the signature  *)
(* values and the protein values of the samples scanned so far, joined      *)
(* under that cancer type, whose two values are both present, in scan order.*)
C4_SeriesArePaired ==
    \A cancer_type \in DOMAIN correlations :
       \A sp \in DOMAIN correlations[cancer_type] :
          LET series == correlations[cancer_type][sp]
              from == Contributing(cancer_type, sp[1], sp[2])
          IN  /\ Len(series.sigs) = Len(series.proteins)
              /\ pc \in {"scan", "done"} =>
                    /\ Len(series.sigs) = Len(from)
                    /\ \A i \in 1..Len(from) :
                          LET entry == Get(Get(join_data, from[i]), cancer_type)
                          IN  /\ series.sigs[i] = Get(entry.sigs, sp[1])
                              /\ series.proteins[i] = Get(entry.proteins, sp[2])
                              /\ series.sigs[i] # None
                              /\ series.proteins[i] # None

(* two samples joined under one cancer type: both in one series, in scan    *)
(* order, and only one of them in another series, where the other misses    *)
(* a value                                                                  *)
C4_Witness ==
    /\ pc = "done"
    /\ \E cancer_type \in DOMAIN correlations :
          \E sp, sq \in DOMAIN correlations[cancer_type] :
             /\ Len(correlations[cancer_type][sp].sigs) = 2
             /\ correlations[cancer_type][sp].sigs[1] # correlations[cancer_type][sp].sigs[2]
             /\ Len(correlations[cancer_type][sq].sigs) = 1
             /\ Cardinality(JoinedSamplesUnder(cancer_type)) = 2

(* C5: when get_correlations returns, the keys of its result are the cancer *)
(* types of rppa_cancer_types, under each the pairs of signature_names x    *)
(* protein_names, and a combination no joined sample contributes to holds   *)
(* two empty sequences.                                                     *)
C5_EveryCombinationPresent ==
    pc = "done" =>
       /\ DOMAIN correlations = rppa_cancer_types
       /\ \A cancer_type \in rppa_cancer_types :
             /\ DOMAIN correlations[cancer_type]
                   = {<<s, p>> : s \in Range(sig_names), p \in Range(protein_names)}
             /\ \A sp \in DOMAIN correlations[cancer_type] :
                   Contributing(cancer_type, sp[1], sp[2]) = <<>>
                      => correlations[cancer_type][sp] = EmptySeries

(* a cancer type of the RPPA file with no joined sample, beside one with data *)
C5_Witness ==
    /\ pc = "done"
    /\ sig_names # <<>>
    /\ \E cancer_type \in rppa_cancer_types :
          /\ JoinedSamplesUnder(cancer_type) = {}
          /\ \A sp \in DOMAIN correlations[cancer_type] :
                correlations[cancer_type][sp] = EmptySeries
    /\ \E cancer_type \in rppa_cancer_types :
          \E sp \in DOMAIN correlations[cancer_type] :
             correlations[cancer_type][sp] # EmptySeries

(* C6: a run ends by completing the full pass or by a declared fatal error; *)
(* stated here for the RPPA files with at least one row: such a run never   *)
(* ends by an exception that is none of the declared errors.                *)
C6_RunCompletesOrBadInput ==
    (pc \in {"done", "exit", "crash"} /\ rppa_rows # <<>>) =>
       \/ pc = "done"
       \/ pc = "exit" /\ exit_status = EXIT_BAD_INPUT
             /\ error \in {BAD_SAMPLE_ID, DUPLICATE_SIGNATURE, DUPLICATE_SAMPLE,
                           UNEXPECTED_CANCER}

Hyphenated(c) == IF c = "." THEN "-" ELSE c

IsTcgaSigId(s) ==
    /\ Len(s) = SAMPLE_ID_LEN
    /\ s[1] = "T" /\ s[2] = "C" /\ s[3] = "G" /\ s[4] = "A"

(* C7: parse_sig_sample_id(s) is s with every period made a hyphen when s   *)
(* starts with TCGA and has 12 characters, and s otherwise; applying it to  *)
(* its own result changes nothing.                                          *)
C7_SigIdNormalisation ==
    /\ id_pc \in {"resig", "rppa", "done"} =>
          /\ Len(parsed_sig_id) = Len(raw_sig_id)
          /\ \A i \in 1..Len(raw_sig_id) :
                parsed_sig_id[i] = IF IsTcgaSigId(raw_sig_id)
                                   THEN Hyphenated(raw_sig_id[i])
                                   ELSE raw_sig_id[i]
    /\ id_pc \in {"rppa", "done"} => reparsed_sig_id = parsed_sig_id

C7_Witness ==
    /\ id_pc = "done"
    /\ IsTcgaSigId(raw_sig_id)
    /\ parsed_sig_id # raw_sig_id
    /\ reparsed_sig_id = parsed_sig_id

(* the signature id, its periods made hyphens, is the first 12 characters   *)
(* of the RPPA barcode                                                      *)
SameSample(r, s) ==
    /\ Len(r) >= SAMPLE_ID_LEN
    /\ IsTcgaSigId(s)
    /\ \A i \in 1..SAMPLE_ID_LEN : Hyphenated(s[i]) = r[i]

(* C8: for an RPPA barcode r of at least 12 characters and a signature id s *)
(* that starts with TCGA and, hyphenated, is the first 12 characters of r,  *)
(* both normalisers give the first 12 characters of r; a shorter barcode    *)
(* gives no sample id but EXIT_BAD_INPUT.                                   *)
C8_NormalisersAgree ==
    id_pc = "done" =>
       /\ SameSample(raw_rppa_id, raw_sig_id) =>
             /\ parsed_rppa_id.ok
             /\ parsed_rppa_id.id = parsed_sig_id
             /\ Len(parsed_rppa_id.id) = SAMPLE_ID_LEN
             /\ \A i \in 1..SAMPLE_ID_LEN : parsed_rppa_id.id[i] = raw_rppa_id[i]
       /\ Len(raw_rppa_id) >= SAMPLE_ID_LEN => parsed_rppa_id.ok
       /\ Len(raw_rppa_id) < SAMPLE_ID_LEN =>
             /\ ~parsed_rppa_id.ok
             /\ pc = "exit"
             /\ error = BAD_SAMPLE_ID
             /\ exit_status = EXIT_BAD_INPUT

(* a dotted signature id and a longer, and a 12 character, barcode of one sample *)
C8_Witness ==
    /\ id_pc = "done"
    /\ SameSample(raw_rppa_id, raw_sig_id)
    /\ raw_sig_id # parsed_sig_id
    /\ Len(raw_rppa_id) > SAMPLE_ID_LEN
    /\ parsed_rppa_id.id = parsed_sig_id

Triple(row) ==
    <<parse_rppa_sample_id(row.Sample_ID).id, row.Cancer_Type, row.Sample_Type>>

(* the rows read_rppa stored: all the rows read, but the one it failed on *)
AcceptedRppaRows ==
    IF error = BAD_SAMPLE_ID
    THEN SubSeq(rppa_rows, 1, Len(rppa_rows) - 1)
    ELSE rppa_rows

LastRowWith(rows, triple) ==
    LET at == {i \in 1..Len(rows) : Triple(rows[i]) = triple}
    IN  CHOOSE i \in at : \A j \in at : j <= i

(* C9: read_rppa fails on no row but one with a short sample id, and after  *)
(* any rows the map holds, for each (sample, cancer type, sample type) of a *)
(* stored row and each protein, the parse result of that protein's cell in  *)
(* the last stored row with the triple, and nothing else.                   *)
C9_LastRowWins ==
    LET rows == AcceptedRppaRows
    IN  /\ pc = "exit" =>
              /\ error = BAD_SAMPLE_ID
              /\ Len(rppa_rows[Len(rppa_rows)].Sample_ID) < SAMPLE_ID_LEN
        /\ \A i \in 1..Len(rows) :
              /\ Len(rows[i].Sample_ID) >= SAMPLE_ID_LEN
              /\ Has(rppa, Triple(rows[i])[1])
              /\ Has(Get(rppa, Triple(rows[i])[1]), rows[i].Cancer_Type)
              /\ Has(Get(Get(rppa, Triple(rows[i])[1]), rows[i].Cancer_Type),
                     rows[i].Sample_Type)
        /\ \A sample \in KeySet(rppa) :
              \A c \in KeySet(Get(rppa, sample)) :
                 \A t \in KeySet(Get(Get(rppa, sample), c)) :
                    /\ \E i \in 1..Len(rows) : Triple(rows[i]) = <<sample, c, t>>
                    /\ LET stored == Get(Get(Get(rppa, sample), c), t)
                           last == rows[LastRowWith(rows, <<sample, c, t>>)]
                       IN  /\ KeySet(stored) = Range(protein_names)
                           /\ \A p \in KeySet(stored) :
                                 Get(stored, p) = ParseFloat(last.cells[p])

(* a triple read twice, from two different raw barcodes: the number of the  *)
(* earlier row was replaced by the missing value of the later one           *)
C9_Witness ==
    /\ pc = "read_sigs"
    /\ \E i, j \in 1..Len(rppa_rows) :
          /\ i < j
          /\ Triple(rppa_rows[i]) = Triple(rppa_rows[j])
          /\ rppa_rows[i].Sample_ID # rppa_rows[j].Sample_ID
          /\ j = LastRowWith(rppa_rows, Triple(rppa_rows[j]))
          /\ \E p \in Range(protein_names) :
                /\ ParseFloat(rppa_rows[i].cells[p]) # None
                /\ ParseFloat(rppa_rows[j].cells[p]) = None
                /\ Get(Get(Get(Get(rppa, Triple(rppa_rows[j])[1]),
                               rppa_rows[j].Cancer_Type),
                           rppa_rows[j].Sample_Type), p) = None

(* C10: every cancer type of the joined record is one of the cancer types   *)
(* read_rppa returned, and get_correlations never exits on an unexpected    *)
(* cancer type.                                                             *)
C10_JoinedCancerTypesAreKnown ==
    /\ \A sample \in KeySet(join_data) :
          KeySet(Get(join_data, sample)) \subseteq rppa_cancer_types
    /\ error # UNEXPECTED_CANCER

(* a full pass over samples joined under two cancer types *)
C10_Witness ==
    /\ pc = "done"
    /\ \E s1, s2 \in KeySet(join_data) :
          KeySet(Get(join_data, s1)) # KeySet(Get(join_data, s2))

====
